---------------------------- MODULE Spec2Model ----------------------------
(***************************************************************************)
(* Sedimentation Basin Design Tool (src/app.py): the Streamlit script as a *)
(* state machine.  The state is the sidebar widgets' values and what the   *)
(* last run of the script produced from them.  Every widget interaction    *)
(* reruns the whole script top to bottom.                                  *)
(*                                                                         *)
(* Numbers.  The script computes in IEEE 754 doubles (Python float and     *)
(* numpy.float64), and so does the model: a double is a record             *)
(* [s, e, m] standing for (-1)^s * m * 2^e, with the 53-bit significand m  *)
(* a natural number kept as a sequence of 15-bit limbs, least significant  *)
(* first; zero has the empty significand and keeps its sign; not-a-number  *)
(* is the record NaN, an infinity the record Inf(s).  Every operation      *)
(* rounds its exact result to the nearest double, a tie to the even        *)
(* significand, as the hardware does: a result beyond the doubles is an   *)
(* infinity, one below the normal range a subnormal or zero.  A Python     *)
(* float division by zero raises ZeroDivisionError; a numpy division by    *)
(* zero gives an infinity or not-a-number.                                 *)
(***************************************************************************)
EXTENDS Integers, Sequences, FiniteSets, TLC

(********************** naturals of any size *******************************)

\* A natural number is the sequence of its digits in base 2^15, least
\* significant first, without a zero in front: zero is << >>.
Base == 32768

LimbBits == 15

Limbs(k) ==
    IF k = 0 THEN << >>
    ELSE IF k < Base THEN <<k>>
    ELSE IF k < Base * Base THEN <<k % Base, k \div Base>>
    ELSE <<k % Base, (k \div Base) % Base, k \div (Base * Base)>>

Limb(a, i) == IF 1 <= i /\ i <= Len(a) THEN a[i] ELSE 0

IMax(i, j) == IF i >= j THEN i ELSE j

IMin(i, j) == IF i <= j THEN i ELSE j

\* a without the zero limbs in front.
BTrim(a) ==
    IF a = << >> \/ a[Len(a)] # 0 THEN a
    ELSE IF \A i \in 1..Len(a) : a[i] = 0 THEN << >>
    ELSE SubSeq(a, 1, CHOOSE i \in 1..Len(a) :
                          a[i] # 0 /\ \A j \in (i + 1)..Len(a) : a[j] = 0)

\* The highest limb in which a and b, of the same length, differ.
TopDiff(a, b) ==
    CHOOSE i \in 1..Len(a) : a[i] # b[i] /\ \A j \in (i + 1)..Len(a) : a[j] = b[j]

\* The sign of a - b.
BCmp(a, b) ==
    IF Len(a) < Len(b) THEN -1
    ELSE IF Len(a) > Len(b) THEN 1
    ELSE IF a = b THEN 0
    ELSE IF a[TopDiff(a, b)] < b[TopDiff(a, b)] THEN -1
    ELSE 1

\* The limbs lo..hi of a * k + sg * b, for 0 <= k <= Base and sg 1 or -1,
\* given the carry c into limb lo, and the carry out of limb hi.  The
\* range is halved, the lower half giving its carry to the upper one.
RECURSIVE LinRange(_, _, _, _, _, _, _)
LinLimb(t) == [s |-> <<t % Base>>, c |-> t \div Base]

LinJoin(low, high) == [s |-> low.s \o high.s, c |-> high.c]

LinHigh(a, k, b, sg, mid, hi, low) ==
    LinJoin(low, LinRange(a, k, b, sg, mid + 1, hi, low.c))

LinRange(a, k, b, sg, lo, hi, c) ==
    IF lo = hi THEN LinLimb(Limb(a, lo) * k + sg * Limb(b, lo) + c)
    ELSE LinHigh(a, k, b, sg, (lo + hi) \div 2, hi,
                 LinRange(a, k, b, sg, lo, (lo + hi) \div 2, c))

\* The limbs with the last carry above them.
LinOut(r) == IF r.c = 0 THEN r.s ELSE Append(r.s, r.c)

BAdd(a, b) ==
    IF a = << >> THEN b
    ELSE IF b = << >> THEN a
    ELSE LinOut(LinRange(a, 1, b, 1, 1, IMax(Len(a), Len(b)), 0))

\* a - b for a >= b.
BSub(a, b) ==
    IF b = << >> THEN a ELSE BTrim(LinRange(a, 1, b, -1, 1, Len(a), 0).s)

\* a * k for 0 <= k <= Base.
BMulSmall(a, k) ==
    IF k = 0 \/ a = << >> THEN << >>
    ELSE IF k = 1 THEN a
    ELSE LinOut(LinRange(a, k, << >>, 1, 1, Len(a), 0))

\* a * Base^n.
BShiftLimbs(a, n) == IF a = << >> THEN a ELSE [i \in 1..n |-> 0] \o a

\* a times the limbs lo..hi of b, the limb lo counting for the units.
RECURSIVE BMulRange(_, _, _, _)
BMulRange(a, b, lo, hi) ==
    IF lo = hi THEN BMulSmall(a, b[lo])
    ELSE BAdd(BMulRange(a, b, lo, (lo + hi) \div 2),
              BShiftLimbs(BMulRange(a, b, (lo + hi) \div 2 + 1, hi),
                          (lo + hi) \div 2 + 1 - lo))

BMul(a, b) == IF a = << >> \/ b = << >> THEN << >> ELSE BMulRange(a, b, 1, Len(b))

\* a * 2^n and a \div 2^n.
BShl(a, n) == BShiftLimbs(BMulSmall(a, 2 ^ (n % LimbBits)), n \div LimbBits)

BShr(a, n) ==
    IF n \div LimbBits >= Len(a) THEN << >>
    ELSE BTrim([i \in 1..(Len(a) - n \div LimbBits) |->
                   a[i + n \div LimbBits] \div 2 ^ (n % LimbBits)
                   + (Limb(a, i + n \div LimbBits + 1) % 2 ^ (n % LimbBits))
                     * 2 ^ (LimbBits - (n % LimbBits))])

\* Bit i of a, the lowest being bit 0.
BBit(a, i) == (Limb(a, i \div LimbBits + 1) \div 2 ^ (i % LimbBits)) % 2

\* Whether the n lowest bits of a are all zero.
BLowZero(a, n) ==
    /\ \A i \in 1..(n \div LimbBits) : Limb(a, i) = 0
    /\ Limb(a, n \div LimbBits + 1) % 2 ^ (n % LimbBits) = 0

\* The number of bits of a limb.
IntBitLen(x) == Cardinality({k \in 0..(LimbBits - 1) : 2 ^ k <= x})

\* The number of bits of a.
BBitLen(a) ==
    IF a = << >> THEN 0 ELSE LimbBits * (Len(a) - 1) + IntBitLen(a[Len(a)])

\* One step of the long division by d, whose top limb has its top bit set
\* unless it is the only one: the quotient limb of rb by d, for
\* rb < d * Base, and the remainder.  The
\* limb is estimated from the two top limbs of rb and the top limb of d,
\* which makes the estimate at most two too large (Knuth, TAOCP 4.3.1,
\* algorithm D), then lowered until q * d fits.
RECURSIVE Fit(_, _, _)
FitProduct(rb, d, q, dq) ==
    IF BCmp(dq, rb) > 0 THEN Fit(rb, d, q - 1) ELSE [q |-> <<q>>, r |-> BSub(rb, dq)]

Fit(rb, d, q) == FitProduct(rb, d, q, BMulSmall(d, q))

\* The quotient limb and the remainder of t by k.
DivOne(t, k) == [q |-> <<t \div k>>, r |-> IF t % k = 0 THEN << >> ELSE <<t % k>>]

\* A divisor of one limb needs no estimate, and no top bit set.
DivLimb(rb, d) ==
    IF Len(d) = 1 THEN DivOne(Limb(rb, 2) * Base + Limb(rb, 1), d[1])
    ELSE Fit(rb, d, IMin(Base - 1, (Limb(rb, Len(d) + 1) * Base + Limb(rb, Len(d)))
                                       \div d[Len(d)]))

\* The long division by d of the limbs lo..hi of a under the remainder r
\* left by the limbs above them: the quotient limbs and the remainder.
\* Zero limbs under a zero remainder give zero limbs; a longer range is
\* halved, the upper half giving its remainder to the lower one.
RECURSIVE LongDiv(_, _, _, _, _)
DivJoin(high, low) == [q |-> low.q \o high.q, r |-> low.r]

DivLow(a, d, lo, mid, high) == DivJoin(high, LongDiv(a, d, lo, mid, high.r))

LongDiv(a, d, lo, hi, r) ==
    IF r = << >> /\ \A i \in lo..hi : a[i] = 0
    THEN [q |-> [i \in 1..(hi - lo + 1) |-> 0], r |-> << >>]
    ELSE IF lo = hi THEN DivLimb(<<a[lo]>> \o r, d)
    ELSE DivLow(a, d, lo, (lo + hi) \div 2,
                LongDiv(a, d, (lo + hi) \div 2 + 1, hi, r))

\* The bits by which d is scaled to set the top bit of its top limb.
Fill(d) == LimbBits - IntBitLen(d[Len(d)])

\* A quotient without a zero limb in front, beside its remainder.
TrimQuotient(d) == [q |-> BTrim(d.q), r |-> d.r]

\* The division of a by d, d's top bit set or d of one limb.
DivFilled(a, d) == TrimQuotient(LongDiv(a, d, 1, Len(a), << >>))

\* Quotient and remainder (the latter scaled by a power of two) of a by
\* d > 0.
BDivMod(a, d) == DivFilled(BShl(a, Fill(d)), BShl(d, Fill(d)))

\* The integer square root of n > 0 by Newton's iteration from x above it:
\* y is the next iterate, and the first that does not go down ends it.
RECURSIVE NewtonSqrt(_, _)
NewtonNext(n, x, y) == IF BCmp(x, y) <= 0 THEN x ELSE NewtonSqrt(n, y)

NewtonSqrt(n, x) == NewtonNext(n, x, BShr(BAdd(x, BDivMod(n, x).q), 1))

BSqrt(n) == NewtonSqrt(n, BShl(<<1>>, (BBitLen(n) + 1) \div 2))

\* q or q + 1: q is a number cut below its last place, `half` tells that
\* the first bit cut was set and `sticky` that more was cut below it; the
\* nearest, a tie to the even.
Nearest(q, half, sticky) ==
    IF half /\ (sticky \/ Limb(q, 1) % 2 = 1) THEN BAdd(q, <<1>>) ELSE q

\* a \div 2^n for n > 0, rounded to the nearest, a tie to the even;
\* `inexact` tells that a stands for a number slightly above a.
BRoundShr(a, n, inexact) ==
    Nearest(BShr(a, n), BBit(a, n - 1) = 1, inexact \/ ~BLowZero(a, n - 1))

\* The four decimal digits of k < 10000, zeros in front.
Four(k) == <<k \div 1000, (k \div 100) % 10, (k \div 10) % 10, k % 10>>

\* The conversion to decimal keeps the number still to convert, q, and
\* the digits found, s: one step finds four more digits, the remainder of
\* q by 10000, and leaves the quotient.
PeelOff(st, d) == [q |-> d.q, s |-> Four(Limb(d.r, 1)) \o st.s]

\* n steps, or as many as leave a number to convert: half of them, then
\* the other half.
RECURSIVE Peel(_, _)
Peel(st, n) ==
    IF st.q = << >> THEN st
    ELSE IF n = 1 THEN PeelOff(st, DivFilled(st.q, <<10000>>))
    ELSE Peel(Peel(st, n \div 2), n - n \div 2)

\* The digits s without the zeros in front.
Strip(s) ==
    IF \A i \in 1..Len(s) : s[i] = 0 THEN << >>
    ELSE SubSeq(s, CHOOSE i \in 1..Len(s) : s[i] # 0 /\ \A j \in 1..(i - 1) : s[j] = 0,
                Len(s))

\* The decimal digits of a, the first in front; none for zero.  A limb
\* takes less than five digits, so two steps a limb are enough.
Decimal(a) == Strip(Peel([q |-> a, s |-> << >>], 2 * Len(a)).s)

(********************** IEEE 754 doubles ***********************************)

\* The number of bits of a double's significand.
MantBits == 53

\* The exponent of the lowest significand bit of the least doubles (the
\* subnormal ones, of fewer than MantBits bits, and the least normal one),
\* and of the greatest: the doubles end at (2^53 - 1) * 2^971.
MinExp == -1074

MaxExp == 971

NaN == [nan |-> TRUE]

IsNaN(x) == "nan" \in DOMAIN x

\* inf and -inf
Inf(s) == [s |-> s, inf |-> TRUE]

IsInf(x) == "inf" \in DOMAIN x

\* math.isfinite(x)
IsFinite(x) == ~IsNaN(x) /\ ~IsInf(x)

Zero(s) == [s |-> s, e |-> 0, m |-> << >>]

IsZero(x) == IsFinite(x) /\ x.m = << >>

\* The double (-1)^s * q * 2^e for q of at most MantBits bits and
\* e >= MinExp: the zero when nothing is left of q (underflow), the
\* infinity beyond the greatest double (overflow).
Finite(s, e, q) ==
    IF q = << >> THEN Zero(s)
    ELSE IF e > MaxExp THEN Inf(s)
    ELSE [s |-> s, e |-> e, m |-> q]

\* (-1)^s * n * 2^e for n > 0 of at most MantBits bits and e >= MinExp:
\* the significand is moved up to MantBits bits, or as far as MinExp
\* lets it.
Norm(s, n, e) ==
    Finite(s, e - IMin(MantBits - BBitLen(n), e - MinExp),
           BShl(n, IMin(MantBits - BBitLen(n), e - MinExp)))

\* The significand q after rounding: one that rounded up to MantBits + 1
\* bits is 2^MantBits.
Carry(s, e, q) ==
    IF BBitLen(q) > MantBits THEN Finite(s, e + 1, BShr(q, 1))
    ELSE Finite(s, e, q)

\* (-1)^s * n * 2^e with the k lowest bits of n rounded away.
RoundBy(s, n, e, inexact, k) ==
    IF k <= 0 THEN Norm(s, n, e)
    ELSE Carry(s, e + k, BRoundShr(n, k, inexact))

\* The double nearest to (-1)^s * n * 2^e, n > 0, a tie to the even
\* significand; `inexact` tells that n stands for a number slightly above n
\* (the division and the square root leave a remainder), and then n has
\* more than MantBits + 1 bits.  The bits rounded away are those beyond
\* MantBits and those below 2^MinExp.
Round(s, n, e, inexact) ==
    RoundBy(s, n, e, inexact, IMax(BBitLen(n) - MantBits, MinExp - e))

\* A finite x other than zero with its significand moved up to MantBits
\* bits, whatever the exponent becomes: the operand of a division or a
\* square root.
Widen(x) ==
    [x EXCEPT !.e = @ - (MantBits - BBitLen(x.m)),
              !.m = BShl(@, MantBits - BBitLen(x.m))]

IAbs(i) == IF i < 0 THEN -i ELSE i

\* float(i) of a Python int below 2^31 in size: exact.
R(i) ==
    IF i = 0 THEN Zero(0)
    ELSE Norm(IF i < 0 THEN 1 ELSE 0, Limbs(IAbs(i)), 0)

RNeg(x) == IF IsNaN(x) THEN x ELSE [x EXCEPT !.s = 1 - @]

\* abs(x)
RAbs(x) == IF IsNaN(x) THEN x ELSE [x EXCEPT !.s = 0]

\* x * y
RMul(x, y) ==
    IF IsNaN(x) \/ IsNaN(y) THEN NaN
    ELSE IF IsInf(x) \/ IsInf(y)
    THEN (IF IsZero(x) \/ IsZero(y) THEN NaN ELSE Inf((x.s + y.s) % 2))
    ELSE IF IsZero(x) \/ IsZero(y) THEN Zero((x.s + y.s) % 2)
    ELSE Round((x.s + y.s) % 2, BMul(x.m, y.m), x.e + y.e, FALSE)

\* The double nearest to the quotient d.q, or slightly above it when the
\* division left a remainder, times (-1)^s * 2^e.
Quotient(s, d, e) == Round(s, d.q, e, d.r # << >>)

\* The limbs of a quotient: enough for the guard bits of the rounding.
QuotientLimbs == 4

\* x / y for finite x and y other than zero, their significands of
\* MantBits bits.
DivWide(s, x, y) ==
    Quotient(s, BDivMod(BShiftLimbs(x.m, QuotientLimbs), y.m),
             x.e - y.e - QuotientLimbs * LimbBits)

\* x / y of IEEE 754, which numpy's division is: a zero divisor gives an
\* infinity, or no number for 0 / 0.  The division of Python floats is
\* the same but for the zero divisor, which raises (see Statement).
RDiv(x, y) ==
    IF IsNaN(x) \/ IsNaN(y) THEN NaN
    ELSE IF IsInf(x) THEN (IF IsInf(y) THEN NaN ELSE Inf((x.s + y.s) % 2))
    ELSE IF IsInf(y) THEN Zero((x.s + y.s) % 2)
    ELSE IF IsZero(y) THEN (IF IsZero(x) THEN NaN ELSE Inf((x.s + y.s) % 2))
    ELSE IF IsZero(x) THEN Zero((x.s + y.s) % 2)
    ELSE DivWide((x.s + y.s) % 2, Widen(x), Widen(y))

\* The magnitudes of x and y compared: the sign of |x| - |y|.
MagCmp(x, y) ==
    IF IsInf(x) THEN (IF IsInf(y) THEN 0 ELSE 1)
    ELSE IF IsInf(y) THEN -1
    ELSE IF IsZero(x) THEN (IF IsZero(y) THEN 0 ELSE -1)
    ELSE IF IsZero(y) THEN 1
    ELSE IF x.e < y.e THEN -1
    ELSE IF x.e > y.e THEN 1
    ELSE BCmp(x.m, y.m)

\* The sign of x - y.
RCmp(x, y) ==
    IF IsZero(x) /\ IsZero(y) THEN 0
    ELSE IF x.s # y.s THEN (IF x.s = 1 THEN -1 ELSE 1)
    ELSE IF x.s = 1 THEN -MagCmp(x, y)
    ELSE MagCmp(x, y)

\* x < y, x <= y, x == y: False when either is not a number.
RLt(x, y) == ~IsNaN(x) /\ ~IsNaN(y) /\ RCmp(x, y) < 0

RLe(x, y) == ~IsNaN(x) /\ ~IsNaN(y) /\ RCmp(x, y) <= 0

REq(x, y) == ~IsNaN(x) /\ ~IsNaN(y) /\ RCmp(x, y) = 0

\* max(x, y): Python keeps the first argument unless the second is greater.
RMax(x, y) == IF RLt(x, y) THEN y ELSE x

\* The number of binary places beyond which the smaller operand of a sum
\* cannot change the rounded result.
FarApart == 64

\* (-1)^s * a * 2^y.e + y for a >= y.m: the signs alike add the
\* significands; equal numbers of opposite sign give the positive zero.
AddAligned(s, a, y) ==
    IF s # y.s /\ a = y.m THEN Zero(0)
    ELSE Round(s, IF s = y.s THEN BAdd(a, y.m) ELSE BSub(a, y.m), y.e, FALSE)

\* x + y for finite numbers other than zero, |x| >= |y|.
AddOrdered(x, y) ==
    IF x.e - y.e > FarApart THEN x
    ELSE AddAligned(x.s, BShl(x.m, x.e - y.e), y)

\* x + y
RAdd(x, y) ==
    IF IsNaN(x) \/ IsNaN(y) THEN NaN
    ELSE IF IsInf(x) THEN (IF IsInf(y) /\ x.s # y.s THEN NaN ELSE x)
    ELSE IF IsInf(y) THEN y
    ELSE IF IsZero(x) /\ IsZero(y) THEN Zero(IF x.s = 1 /\ y.s = 1 THEN 1 ELSE 0)
    ELSE IF IsZero(x) THEN y
    ELSE IF IsZero(y) THEN x
    ELSE AddOrdered(IF MagCmp(x, y) >= 0 THEN x ELSE y,
                    IF MagCmp(x, y) >= 0 THEN y ELSE x)

\* x - y
RSub(x, y) == RAdd(x, RNeg(y))

\* The double nearest to the square root of n * 2^(2e), `root` being the
\* integer square root of n: inexact unless n is its square.
Root(n, root, e) == Round(0, root, e, BMul(root, root) # n)

\* The bits by which the significand of x is moved up before the integer
\* square root: enough for guard bits in the root, and leaving an even
\* exponent.
SqrtShift(x) == (MantBits + 3) + ((x.e + MantBits + 3) % 2)

\* The square root of a finite x > 0 whose significand has MantBits bits.
SqrtWide(x) ==
    Root(BShl(x.m, SqrtShift(x)), BSqrt(BShl(x.m, SqrtShift(x))),
         (x.e - SqrtShift(x)) \div 2)

\* np.sqrt(x): not a number for a negative x.
RSqrt(x) ==
    IF IsNaN(x) THEN NaN
    ELSE IF IsZero(x) THEN x
    ELSE IF x.s = 1 THEN NaN
    ELSE IF IsInf(x) THEN x
    ELSE SqrtWide(Widen(x))

\* A decimal literal or an entered decimal number n / d: the double nearest
\* to it (d a power of ten, n and d below 2^31, so the correctly rounded
\* quotient of the two exact doubles).  The literals of the script are
\* converted once, as its compilation does.
Decimals ==
    [p \in {<<1, 10>>, <<3, 10>>, <<5, 10>>, <<11, 10>>, <<35, 100>>, <<115, 100>>,
            <<125, 100>>, <<1, 1000>>, <<15, 10000>>, <<45, 10000>>, <<1, 1000000>>,
            <<378541, 100>>} |-> RDiv(R(p[1]), R(p[2]))]

Dec(n, d) ==
    IF <<n, d>> \in DOMAIN Decimals THEN Decimals[<<n, d>>] ELSE RDiv(R(n), R(d))

(************************ the script's calculations ************************)

(***************************************************************************)
(* The script is straight-line code over one namespace.  An operator named *)
(* after a variable of the script gives the value its assignment computes, *)
(* from the namespace e as it is at that line: the widgets' values and the *)
(* variables assigned above it.  Every operation is the double operation   *)
(* of the source, in the source's order.                                   *)
(***************************************************************************)

\* Lines 98-106 with the gallon factor cut to one decimal.
flow_m3_day_short_factor(e) ==
    CASE e.flow_units = "m3/day" -> e.flow_input
      [] e.flow_units = "m3/hour" -> RMul(e.flow_input, R(24))
      [] e.flow_units = "MGD (Million Gallons/Day)" -> RMul(e.flow_input, Dec(37854, 10))
      [] e.flow_units = "L/s" -> RMul(RMul(e.flow_input, Dec(1, 1000)), R(86400))

\* Lines 98-106: the design flow in m3/day ("m3" stands for the source's
\* "m" with a superscript 3).  L/s takes two multiplications.
flow_m3_day(e) ==
    CASE e.flow_units = "m3/day" -> e.flow_input
      [] e.flow_units = "m3/hour" -> RMul(e.flow_input, R(24))
      [] e.flow_units = "MGD (Million Gallons/Day)" -> RMul(e.flow_input, Dec(378541, 100))
      [] e.flow_units = "L/s" -> RMul(RMul(e.flow_input, Dec(1, 1000)), R(86400))

\* Line 123.
flow_per_basin(e) == RDiv(e.flow_m3_day, R(e.num_basins))

\* Line 126 with the hours taken for days.
volume_required_undivided(e) == RMul(e.flow_per_basin, e.detention_time)

\* Line 126.
volume_required(e) == RMul(e.flow_per_basin, RDiv(e.detention_time, R(24)))

\* Line 129 with the overflow rate derated by the target removal.
surface_area_required_derated(e) ==
    RDiv(e.flow_per_basin, RMul(e.overflow_rate, RDiv(e.target_removal, R(100))))

\* Line 129.
surface_area_required(e) == RDiv(e.flow_per_basin, e.overflow_rate)

\* Line 148.
surface_area_for_volume(e) == RDiv(e.volume_required, e.depth)

\* Line 151 with min for max.
surface_area_actual_min(e) ==
    IF RLt(e.surface_area_for_volume, e.surface_area_required)
    THEN e.surface_area_for_volume ELSE e.surface_area_required

\* Line 151.
surface_area_actual(e) == RMax(e.surface_area_required, e.surface_area_for_volume)

\* Line 164: np.sqrt(surface_area_actual / l_w_ratio).
width(e) == RSqrt(RDiv(e.surface_area_actual, e.l_w_ratio))

\* Line 165.
length(e) == RMul(e.width, e.l_w_ratio)

\* Line 168.
volume_actual(e) == RMul(e.surface_area_actual, e.depth)

\* Line 171.
detention_time_actual(e) == RMul(RDiv(e.volume_actual, e.flow_per_basin), R(24))

\* Line 174.
overflow_rate_actual(e) == RDiv(e.flow_per_basin, e.surface_area_actual)

\* Line 204: (flow_per_basin / 86400) / (width * depth).
horizontal_velocity(e) ==
    RDiv(RDiv(e.flow_per_basin, R(86400)), RMul(e.width, e.depth))

\* Line 207.
weir_length(e) == RMul(R(2), e.width)

\* Line 208.
weir_loading(e) == RDiv(RDiv(e.flow_per_basin, R(86400)), e.weir_length)

\* Line 209.
weir_loading_m3_d_m(e) == RDiv(e.flow_per_basin, e.weir_length)

\* Line 213: 1.0e-6.
kinematic_viscosity == Dec(1, 1000000)

\* Line 214.
reynolds_number(e) ==
    RDiv(RMul(e.horizontal_velocity, e.depth), e.kinematic_viscosity)

(*************************** the design checks *****************************)

\* Line 261.
dt_check(e) ==
    RLt(RDiv(RAbs(RSub(e.detention_time_actual, e.detention_time)), e.detention_time),
        Dec(1, 10))

\* Line 271.
or_check(e) ==
    RLt(RDiv(RAbs(RSub(e.overflow_rate_actual, e.overflow_rate)), e.overflow_rate),
        Dec(1, 10))

\* Line 281.
hv_check(e) ==
    /\ RLe(Dec(15, 10000), e.horizontal_velocity)
    /\ RLe(e.horizontal_velocity, Dec(45, 10000))

\* Line 291.
lw_check(e) == RLe(R(3), e.l_w_ratio) /\ RLe(e.l_w_ratio, R(5))

\* Line 301 with strict bounds.
depth_check_strict(e) == RLt(R(3), e.depth) /\ RLt(e.depth, R(5))

\* Line 301.
depth_check(e) == RLe(R(3), e.depth) /\ RLe(e.depth, R(5))

\* Line 311.
weir_check(e) ==
    /\ RLe(R(125), e.weir_loading_m3_d_m)
    /\ RLe(e.weir_loading_m3_d_m, R(500))

\* Line 321.
re_check(e) == RLt(e.reynolds_number, R(2000))

\* "Pass" and "Review" stand for the source's two status strings, which
\* carry an emoji in front.
StatusPass == "Pass"

StatusReview == "Review"

\* One entry of the list, as at lines 262-268.  The Target and Actual
\* columns are formatted text for the table only.
CheckRow(criterion, passed, good, bad) ==
    [Criterion |-> criterion,
     Status |-> IF passed THEN StatusPass ELSE StatusReview,
     Notes |-> IF passed THEN good ELSE bad]

\* Line 334 with any for all.
all_pass_any(e) == \E i \in 1..Len(e.checks) : e.checks[i].Status = StatusPass

\* Line 334: all([c["Status"] == pass for c in checks]).
all_pass(e) == \A i \in 1..Len(e.checks) : e.checks[i].Status = StatusPass

(**************************** cost estimation ******************************)

\* Line 569.
wall_thickness == Dec(3, 10)

\* Lines 570-574: floor, long walls and short walls, times the basins.
concrete_volume(e) ==
    RMul(RAdd(RAdd(RMul(RMul(e.length, e.width), Dec(3, 10)),
                   RMul(R(2), RMul(RMul(e.length, e.depth), e.wall_thickness))),
              RMul(R(2), RMul(RMul(e.width, e.depth), e.wall_thickness))),
         R(e.num_basins))

\* Line 586.
concrete_cost(e) == RMul(e.concrete_volume, R(150))

\* Line 587: (length * width * (depth + 0.5)) * num_basins * 20.
excavation_cost(e) ==
    RMul(RMul(RMul(RMul(e.length, e.width), RAdd(e.depth, Dec(5, 10))),
              R(e.num_basins)),
         R(20))

\* Line 588: an int of any size, carried as the double it becomes in the
\* sum of line 590 (the product is exact, so its conversion is the rounded
\* product of the two doubles).
equipment_cost(e) == RMul(R(e.num_basins), R(50000))

\* Line 590.
total_cost(e) == RAdd(RAdd(e.concrete_cost, e.excavation_cost), e.equipment_cost)

(*************************** the summary report ****************************)

\* The integer nearest to |x| * k for a finite x and 0 < k <= Base, a tie
\* going to the even one; the rounding is of the double's exact value.
Scaled(x, k) ==
    IF x.e >= 0 THEN BShl(BMulSmall(x.m, k), x.e)
    ELSE BRoundShr(BMulSmall(x.m, k), -x.e, FALSE)

\* Python's fixed-point format of a number x to p decimals, f"{x:.pf}":
\* the digits of the integer nearest to |x| * 10^p.
FixedPoint(x, p) == Decimal(Scaled(x, 10 ^ p))

\* A formatted quantity: sign, digits, the number of them after the point,
\* whether thousands are grouped by commas (the "," of the format) and the
\* unit written behind; "nan" for what is not a number, "inf" or "-inf"
\* for an infinity.
Text(x, p, grouped, unit) ==
    IF IsNaN(x)
    THEN [nan |-> TRUE, inf |-> FALSE, neg |-> FALSE, digits |-> << >>, places |-> p,
          grouped |-> grouped, unit |-> unit]
    ELSE IF IsInf(x)
    THEN [nan |-> FALSE, inf |-> TRUE, neg |-> x.s = 1, digits |-> << >>, places |-> p,
          grouped |-> grouped, unit |-> unit]
    ELSE [nan |-> FALSE, inf |-> FALSE, neg |-> x.s = 1, digits |-> FixedPoint(x, p),
          places |-> p, grouped |-> grouped, unit |-> unit]

\* f"{i}" of an int.
IntText(i) ==
    [nan |-> FALSE, inf |-> FALSE, neg |-> i < 0, digits |-> Decimal(Limbs(IAbs(i))),
     places |-> 0, grouped |-> FALSE, unit |-> ""]

Row(parameter, value) == [Parameter |-> parameter, Value |-> value]

\* Lines 607-646.
summary_data(e) ==
    << Row("Design Flow Rate", Text(e.flow_m3_day, 0, TRUE, "m3/d")),
       Row("Number of Basins", IntText(e.num_basins)),
       Row("Flow per Basin", Text(e.flow_per_basin, 0, TRUE, "m3/d")),
       Row("Target Removal", Text(e.target_removal, 1, FALSE, "%")),
       Row("Detention Time (Design)", Text(e.detention_time, 2, FALSE, "hours")),
       Row("Detention Time (Actual)", Text(e.detention_time_actual, 2, FALSE, "hours")),
       Row("Overflow Rate (Design)", Text(e.overflow_rate, 1, FALSE, "m/d")),
       Row("Overflow Rate (Actual)", Text(e.overflow_rate_actual, 1, FALSE, "m/d")),
       Row("Basin Length", Text(e.length, 2, FALSE, "m")),
       Row("Basin Width", Text(e.width, 2, FALSE, "m")),
       Row("Basin Depth", Text(e.depth, 2, FALSE, "m")),
       Row("Basin Volume", Text(e.volume_actual, 1, TRUE, "m3")),
       Row("Surface Area", Text(e.surface_area_actual, 1, TRUE, "m2")),
       Row("Length:Width Ratio", Text(e.l_w_ratio, 1, FALSE, ":1")),
       Row("Horizontal Velocity",
           Text(RMul(e.horizontal_velocity, R(100)), 2, FALSE, "cm/s")),
       Row("Weir Loading", Text(e.weir_loading_m3_d_m, 1, FALSE, "m3/d/m")),
       Row("Reynolds Number", Text(e.reynolds_number, 0, TRUE, "")) >>

(****************************** one run ************************************)

NotProduced == [undef |-> TRUE]

Produced(x) == x # NotProduced

\* The namespace at line 97, the widgets' values being w: the five
\* widgets of lines 55-96 have been read, nothing else is assigned yet
\* (num_basins, depth and l_w_ratio are read further down, between the
\* calculations).  fail_line is the line whose exception ended the run, 0
\* while none has.
Namespace(w) ==
    [detention_time |-> w.detention_time, overflow_rate |-> w.overflow_rate,
     target_removal |-> w.target_removal, flow_units |-> w.flow_units,
     flow_input |-> w.flow_input, num_basins |-> NotProduced,
     depth |-> NotProduced, l_w_ratio |-> NotProduced,
     fail_line |-> 0,
     flow_m3_day |-> NotProduced, flow_per_basin |-> NotProduced,
     volume_required |-> NotProduced, surface_area_required |-> NotProduced,
     surface_area_for_volume |-> NotProduced, surface_area_actual |-> NotProduced,
     width |-> NotProduced, length |-> NotProduced, volume_actual |-> NotProduced,
     detention_time_actual |-> NotProduced, overflow_rate_actual |-> NotProduced,
     horizontal_velocity |-> NotProduced, weir_length |-> NotProduced,
     weir_loading |-> NotProduced, weir_loading_m3_d_m |-> NotProduced,
     kinematic_viscosity |-> NotProduced, reynolds_number |-> NotProduced,
     checks |-> NotProduced, all_pass |-> NotProduced,
     wall_thickness |-> NotProduced, concrete_volume |-> NotProduced,
     concrete_cost |-> NotProduced, excavation_cost |-> NotProduced,
     equipment_cost |-> NotProduced, total_cost |-> NotProduced,
     summary_data |-> NotProduced]

\* The run ends at `line` when the statement there raises.
Raise(e, line) == [e EXCEPT !.fail_line = line]

AppendCheck(e, criterion, passed, good, bad) ==
    [e EXCEPT !.checks = Append(@, CheckRow(criterion, passed, good, bad))]

\* Whether both limits of an axis, -a * lo and a * hi, are finite.
FiniteLimits(a, lo, hi) == IsFinite(RMul(RNeg(a), lo)) /\ IsFinite(RMul(a, hi))

\* Lines 346-555, the three views of the basin, assign nothing the later
\* statements read.  Their set_xlim and set_ylim (lines 482, 483, 549 and
\* 550) are matplotlib's, which raise a ValueError on a limit that is
\* infinite or not a number; nothing else of the drawing depends on the
\* values in a way that ends the run.
Draw(e) ==
    IF ~FiniteLimits(e.length, Dec(3, 10), Dec(11, 10)) THEN Raise(e, 482)
    ELSE IF ~FiniteLimits(e.width, Dec(3, 10), Dec(11, 10)) THEN Raise(e, 483)
    ELSE IF ~FiniteLimits(e.length, Dec(1, 10), Dec(125, 100)) THEN Raise(e, 549)
    ELSE IF ~FiniteLimits(e.depth, Dec(35, 100), Dec(115, 100)) THEN Raise(e, 550)
    ELSE e

NumStatements == 37

\* The k-th statement of the script from line 98 on, on the namespace e,
\* the widgets' values being w.  Lines 123-174 and 261-271 divide Python
\* floats: a zero divisor raises ZeroDivisionError.  Lines 204-214 divide
\* numpy values, which gives an infinity or no number instead.  No
\* multiplication, division or sum raises on overflow: it gives an
\* infinity.
Statement(w, e, k) ==
    CASE k = 1 -> [e EXCEPT !.flow_m3_day = flow_m3_day(e)]
      [] k = 2 -> [e EXCEPT !.num_basins = w.num_basins]
      [] k = 3 -> IF e.num_basins = 0 THEN Raise(e, 123)
                  ELSE [e EXCEPT !.flow_per_basin = flow_per_basin(e)]
      [] k = 4 -> [e EXCEPT !.volume_required = volume_required(e)]
      [] k = 5 -> IF IsZero(e.overflow_rate) THEN Raise(e, 129)
                  ELSE [e EXCEPT !.surface_area_required = surface_area_required(e)]
      [] k = 6 -> [e EXCEPT !.depth = w.depth]
      [] k = 7 -> IF IsZero(e.depth) THEN Raise(e, 148)
                  ELSE [e EXCEPT !.surface_area_for_volume = surface_area_for_volume(e)]
      [] k = 8 -> [e EXCEPT !.surface_area_actual = surface_area_actual(e)]
      [] k = 9 -> [e EXCEPT !.l_w_ratio = w.l_w_ratio]
      [] k = 10 -> IF IsZero(e.l_w_ratio) THEN Raise(e, 164)
                  ELSE [e EXCEPT !.width = width(e)]
      [] k = 11 -> [e EXCEPT !.length = length(e)]
      [] k = 12 -> [e EXCEPT !.volume_actual = volume_actual(e)]
      [] k = 13 -> IF IsZero(e.flow_per_basin) THEN Raise(e, 171)
                   ELSE [e EXCEPT !.detention_time_actual = detention_time_actual(e)]
      [] k = 14 -> IF IsZero(e.surface_area_actual) THEN Raise(e, 174)
                   ELSE [e EXCEPT !.overflow_rate_actual = overflow_rate_actual(e)]
      [] k = 15 -> [e EXCEPT !.horizontal_velocity = horizontal_velocity(e)]
      [] k = 16 -> [e EXCEPT !.weir_length = weir_length(e)]
      [] k = 17 -> [e EXCEPT !.weir_loading = weir_loading(e)]
      [] k = 18 -> [e EXCEPT !.weir_loading_m3_d_m = weir_loading_m3_d_m(e)]
      [] k = 19 -> [e EXCEPT !.kinematic_viscosity = kinematic_viscosity]
      [] k = 20 -> [e EXCEPT !.reynolds_number = reynolds_number(e)]
      [] k = 21 -> [e EXCEPT !.checks = << >>]
      [] k = 22 -> IF IsZero(e.detention_time) THEN Raise(e, 261)
                   ELSE AppendCheck(e, "Detention Time Match", dt_check(e),
                                    "Within 10% of target", "Adjust depth or L:W ratio")
      [] k = 23 -> IF IsZero(e.overflow_rate) THEN Raise(e, 271)
                   ELSE AppendCheck(e, "Overflow Rate Match", or_check(e),
                                    "Within 10% of target", "Adjust depth or L:W ratio")
      [] k = 24 -> AppendCheck(e, "Horizontal Velocity", hv_check(e),
                               "Good for settling", "May cause scour or short-circuiting")
      [] k = 25 -> AppendCheck(e, "Length:Width Ratio", lw_check(e),
                               "Good plug flow", "Adjust for better hydraulics")
      [] k = 26 -> AppendCheck(e, "Basin Depth", depth_check(e),
                               "Typical range", "Consider structural implications")
      [] k = 27 -> AppendCheck(e, "Weir Loading", weir_check(e),
                               "Won't disturb floc", "Consider increasing weir length")
      [] k = 28 -> AppendCheck(e, "Flow Regime", re_check(e),
                               "Laminar flow", "Turbulent - may affect settling")
      [] k = 29 -> [e EXCEPT !.all_pass = [value |-> all_pass(e)]]
      [] k = 30 -> Draw(e)
      [] k = 31 -> [e EXCEPT !.wall_thickness = wall_thickness]
      [] k = 32 -> [e EXCEPT !.concrete_volume = concrete_volume(e)]
      [] k = 33 -> [e EXCEPT !.concrete_cost = concrete_cost(e)]
      [] k = 34 -> [e EXCEPT !.excavation_cost = excavation_cost(e)]
      [] k = 35 -> [e EXCEPT !.equipment_cost = equipment_cost(e)]
      [] k = 36 -> [e EXCEPT !.total_cost = total_cost(e)]
      [] k = 37 -> [e EXCEPT !.summary_data = summary_data(e)]
      [] OTHER -> e

\* The statements from the i-th to the j-th, in order, on the namespace e:
\* none once a statement has raised; otherwise the first half of them,
\* then the second.
RECURSIVE Run(_, _, _, _)
Run(w, e, i, j) ==
    IF e.fail_line # 0 \/ i > j THEN e
    ELSE IF i = j THEN Statement(w, e, i)
    ELSE Run(w, Run(w, e, i, (i + j) \div 2), (i + j) \div 2 + 1, j)

\* The statements from the k-th on, in order, until one raises.
RunFrom(w, e, k) == Run(w, e, k, NumStatements)

\* One run of the script, top to bottom, on the widgets' values w: the
\* namespace it leaves.
Script(w) == RunFrom(w, Namespace(w), 1)


(***************************** the widgets *********************************)

\* Each sidebar widget keeps its value inside [min_value, max_value]; the
\* sliders also keep it on their step.  A value is the double nearest to
\* the decimal number the widget shows.

\* A natural number below 2^30 as an integer.
BInt(a) == Limb(a, 1) + Base * Limb(a, 2)

\* Whether v >= 0 is k / per for a natural number k: a position of a
\* slider whose step is 1 / per.
OnStep(v, per) == v = Dec(BInt(Scaled(v, per)), per)

\* Lines 55-62.
detention_time_accepts(v) == RLe(Dec(1, 10), v) /\ RLe(v, R(24))

\* Lines 64-71.
overflow_rate_accepts(v) == RLe(R(1), v) /\ RLe(v, R(10000))

\* Lines 73-80.
target_removal_accepts(v) == RLe(R(0), v) /\ RLe(v, R(100))

\* Lines 85-89.
FlowUnits == {"m3/day", "m3/hour", "MGD (Million Gallons/Day)", "L/s"}

\* Lines 91-96: a minimum and no maximum.
flow_input_accepts(v) == RLe(R(1), v)

\* Lines 111-118.
num_basins_accepts(v) == 1 <= v /\ v <= 10

\* Lines 138-145 with min_value=0.0.
depth_accepts_from_zero(v) == RLe(R(0), v) /\ RLe(v, R(6)) /\ OnStep(v, 10)

\* Lines 138-145: 2.0 to 6.0 in steps of 0.1.
depth_accepts(v) == RLe(R(2), v) /\ RLe(v, R(6)) /\ OnStep(v, 10)

\* Lines 154-161: 2.0 to 6.0 in steps of 0.5.
l_w_ratio_accepts(v) == RLe(R(2), v) /\ RLe(v, R(6)) /\ OnStep(v, 2)

\* The widgets' value= arguments.
Defaults ==
    [detention_time |-> Dec(20, 10), overflow_rate |-> R(1200),
     target_removal |-> R(75), flow_units |-> "m3/day", flow_input |-> R(10000),
     num_basins |-> 2, depth |-> Dec(35, 10), l_w_ratio |-> R(4)]

\* What the user tries to enter, values the widgets refuse among them.
BasinsTried == 2

DetentionTimeTried == {R(0), R(2), R(25)}

OverflowRateTried == {R(0), R(45), R(1200), R(10001)}

TargetRemovalTried == {R(-1), R(75), Dec(8026, 100), R(101)}

\* 1e308, which the flow widget, having no maximum, lets through.
E308 == [s |-> 0, e |-> 971, m |-> <<18592, 3031, 13262, 142>>]

\* The flows tried under the unit u: under a unit that is converted (lines
\* 101-106) 1e308 too, which the conversion takes beyond the doubles.
FlowInputTried(u) ==
    {R(0), R(1), R(10000)} \cup (IF u = "m3/day" THEN {} ELSE {E308})

NumBasinsTried == (0..BasinsTried) \cup {11}

DepthTried == {R(0), Dec(35, 10), R(5), Dec(345, 100), R(7)}

LWRatioTried == {R(0), R(4), Dec(42, 10), R(7)}

(**************************** the state machine ****************************)

VARIABLES widgets, out

vars == <<widgets, out>>

\* Streamlit runs the whole script again on every interaction: nothing of
\* the run before is kept but the widgets' values.
Rerun(w) == Script(w)

Init == widgets = Defaults /\ out = Script(Defaults)

SetDetentionTime ==
    \E v \in DetentionTimeTried :
        /\ detention_time_accepts(v)
        /\ widgets' = [widgets EXCEPT !.detention_time = v]
        /\ out' = Rerun(widgets')

SetOverflowRate ==
    \E v \in OverflowRateTried :
        /\ overflow_rate_accepts(v)
        /\ widgets' = [widgets EXCEPT !.overflow_rate = v]
        /\ out' = Rerun(widgets')

SetTargetRemoval ==
    \E v \in TargetRemovalTried :
        /\ target_removal_accepts(v)
        /\ widgets' = [widgets EXCEPT !.target_removal = v]
        /\ out' = Rerun(widgets')

\* The flow input's label names the unit (line 92) and the widget has no
\* key: under another unit it is another widget, at its default value.
SetFlowUnits ==
    \E u \in FlowUnits :
        /\ u # widgets.flow_units
        /\ widgets' = [widgets EXCEPT !.flow_units = u, !.flow_input = Defaults.flow_input]
        /\ out' = Rerun(widgets')

SetFlowInput ==
    \E v \in FlowInputTried(widgets.flow_units) :
        /\ flow_input_accepts(v)
        /\ widgets' = [widgets EXCEPT !.flow_input = v]
        /\ out' = Rerun(widgets')

SetNumBasins ==
    \E v \in NumBasinsTried :
        /\ num_basins_accepts(v)
        /\ widgets' = [widgets EXCEPT !.num_basins = v]
        /\ out' = Rerun(widgets')

SetDepth ==
    \E v \in DepthTried :
        /\ depth_accepts(v)
        /\ widgets' = [widgets EXCEPT !.depth = v]
        /\ out' = Rerun(widgets')

SetLWRatio ==
    \E v \in LWRatioTried :
        /\ l_w_ratio_accepts(v)
        /\ widgets' = [widgets EXCEPT !.l_w_ratio = v]
        /\ out' = Rerun(widgets')

\* A run with the widgets as they are: a click on the download button
\* (lines 653-658), which is there only when the run before got that far.
Download ==
    /\ out.fail_line = 0
    /\ widgets' = widgets
    /\ out' = Rerun(widgets')

Next ==
    \/ SetDetentionTime
    \/ SetOverflowRate
    \/ SetTargetRemoval
    \/ SetFlowUnits
    \/ SetFlowInput
    \/ SetNumBasins
    \/ SetDepth
    \/ SetLWRatio
    \/ Download

Spec == Init /\ [][Next]_vars

(***************************************************************************)
(* The calculation as a function of its inputs, whatever they are: the     *)
(* inputs are drawn from values the widgets allow and values they do not   *)
(* (zero, negative, off the sliders' steps, at the ends of the doubles),   *)
(* and one run is applied to them.  A negative ratio puts a negative       *)
(* number under np.sqrt.                                                   *)
(***************************************************************************)
FnMaxBasins == 2

InvalidGrid ==
    [detention_time : {R(-1), R(0), R(2)}, overflow_rate : {R(0), R(40), R(1200)},
     target_removal : {R(75)}, flow_units : {"m3/day"},
     flow_input : {R(0), R(10000)}, num_basins : {0, FnMaxBasins},
     depth : {R(-1), R(0), Dec(35, 10)}, l_w_ratio : {R(-4), R(0), R(4)}]

\* Depths and ratios on and beside the limits of checks 4 and 5.
LimitGrid ==
    [detention_time : {R(2)}, overflow_rate : {R(45), R(1200)},
     target_removal : {R(75)}, flow_units : {"m3/day"},
     flow_input : {R(10000)}, num_basins : 1..FnMaxBasins,
     depth : {Dec(299, 100), R(3), R(5), Dec(501, 100)},
     l_w_ratio : {Dec(25, 10), R(3), R(5), Dec(55, 10)}]

Fixture(dt, vo, flow, d, r) ==
    [detention_time |-> dt, overflow_rate |-> vo, target_removal |-> R(75),
     flow_units |-> "m3/day", flow_input |-> flow, num_basins |-> 1,
     depth |-> d, l_w_ratio |-> r]

\* Inputs that, with one basin, put a checked quantity on a limit, in
\* doubles too: the overflow rate 10% off its target, the detention time
\* 10% off its target, the weir loading at 125 and at 500 (twice), the
\* velocity at 0.0015 and at 0.0045; one that leaves the Reynolds number
\* an ulp above 2000 (no double divided by 1.0e-6 gives 2000); and one,
\* inside the widgets' ranges, whose actual detention time comes out two
\* ulps below its target.
BoundaryFixtures ==
    { Fixture(R(2), R(40), R(10000), R(3), R(4)),
      Fixture(Dec(25, 10), R(48), R(10000), Dec(55, 10), R(4)),
      Fixture(Dec(5, 10), Dec(15625, 1000), R(1000), R(2), R(4)),
      Fixture(Dec(5, 10), R(125), R(2000), R(3), R(4)),
      Fixture(R(2), R(50), R(5000), R(5), R(4)),
      Fixture(Dec(5, 10), R(9), R(3888), Dec(25, 10), R(3)),
      Fixture(Dec(5, 10), R(81), R(3888), Dec(25, 10), R(3)),
      Fixture(Dec(5, 10), Dec(432, 10), Dec(1728, 10), R(3), R(4)),
      Fixture(R(2), R(1200), R(10000), Dec(44, 10), R(4)) }

\* 5e-324, the least double above zero.
Tiny == [s |-> 0, e |-> MinExp, m |-> <<1>>]

\* Inputs at the ends of the doubles: a flow whose costs overflow (lines
\* 586-590), one whose actual volume overflows (line 168), one that
\* overflows on its conversion to m3/day (line 102), and one so small
\* that the areas underflow to zero.
ExtremeFixtures ==
    { Fixture(R(2), R(1200), E308, Dec(35, 10), R(4)),
      Fixture(Dec(1, 10), R(1), E308, R(6), R(4)),
      [Fixture(R(2), R(1200), E308, Dec(35, 10), R(4)) EXCEPT !.flow_units = "m3/hour"],
      Fixture(R(2), R(1200), Tiny, Dec(35, 10), R(4)) }

BoundaryGrid ==
    LimitGrid
        \cup {[w EXCEPT !.num_basins = n] :
                  w \in BoundaryFixtures \cup ExtremeFixtures, n \in 1..FnMaxBasins}

FnInputs == InvalidGrid \cup BoundaryGrid

InitFn == widgets \in FnInputs /\ out = Namespace(widgets)

Compute ==
    /\ out = Namespace(widgets)
    /\ out' = Script(widgets)
    /\ UNCHANGED widgets

NextFn == Compute

SpecFn == InitFn /\ [][NextFn]_vars

(******************************* the claims ********************************)

\* The inputs the widgets let through, of those tried.
WidgetInputs ==
    UNION {[detention_time : {v \in DetentionTimeTried : detention_time_accepts(v)},
            overflow_rate : {v \in OverflowRateTried : overflow_rate_accepts(v)},
            target_removal : {v \in TargetRemovalTried : target_removal_accepts(v)},
            flow_units : {u},
            flow_input : {v \in FlowInputTried(u) : flow_input_accepts(v)},
            num_basins : {v \in NumBasinsTried : num_basins_accepts(v)},
            depth : {v \in DepthTried : depth_accepts(v)},
            l_w_ratio : {v \in LWRatioTried : l_w_ratio_accepts(v)}] : u \in FlowUnits}

\* The run went through every statement.
Completed == out.fail_line = 0 /\ Produced(out.summary_data)

\* The run got as far as the overall flag of line 334.
Evaluated == Produced(out.all_pass)

\* The lines whose division of Python floats can raise ZeroDivisionError.
DivisionLines == {123, 129, 148, 164, 171, 174, 261, 271}

\* x and y differ by no more than the rounding of a few double operations
\* can make them differ: by less than a billionth of y.
Near(x, y) == RLe(RAbs(RSub(x, y)), RMul(RAbs(y), Dec(1, 1000000000)))

\* C1: on every accepted input the surface area used is at least the area
\* the overflow rate requires (flow per basin / overflow rate) and at least
\* the area the volume requires (required volume / depth), and it is one of
\* the two.
C1_AreaCoversBothRequirements ==
    Produced(out.surface_area_actual) =>
        /\ out.surface_area_required = RDiv(out.flow_per_basin, widgets.overflow_rate)
        /\ out.surface_area_for_volume = RDiv(out.volume_required, widgets.depth)
        /\ RLe(out.surface_area_required, out.surface_area_actual)
        /\ RLe(out.surface_area_for_volume, out.surface_area_actual)
        /\ out.surface_area_actual
               \in {out.surface_area_required, out.surface_area_for_volume}

\* A run where the two areas differ and the volume's is the one used.
C1_VolumeGoverns ==
    /\ Completed
    /\ RLt(out.surface_area_required, out.surface_area_for_volume)
    /\ out.surface_area_actual = out.surface_area_for_volume

\* C2: some valid input makes all seven checks pass, so that the overall
\* flag is true: the input on the widgets now, or another the widgets let
\* through, or one of the boundary inputs.
C2_SomeInputPassesAll ==
    \E w \in {widgets} \cup WidgetInputs \cup BoundaryGrid :
        Produced(Script(w).all_pass) /\ Script(w).all_pass.value

\* C3: the overall flag is true exactly when checks 1 to 7 of the same run
\* all pass; one failing check makes it false.
C3_AllPassIsConjunction ==
    Evaluated =>
        /\ Len(out.checks) = 7
        /\ out.all_pass.value
               = (\A i \in 1..7 : out.checks[i].Status = StatusPass)
        /\ out.all_pass.value
               = (/\ dt_check(out) /\ or_check(out) /\ hv_check(out)
                  /\ lw_check(out) /\ depth_check(out) /\ weir_check(out)
                  /\ re_check(out))

\* A run where check 7 alone fails, and the flag is false.
C3_OneFailingCheck ==
    /\ Completed
    /\ \A i \in 1..6 : out.checks[i].Status = StatusPass
    /\ out.checks[7].Status = StatusReview
    /\ out.all_pass.value = FALSE

\* The relative deviation |actual - target| / target of checks 1 and 2.
Deviation(actual, target) == RDiv(RAbs(RSub(actual, target)), target)

Passes(i) == out.checks[i].Status = StatusPass

\* C4: a run that reaches the checks evaluates seven of them, in this order, and each
\* passes exactly on its condition: 1 and 2 on a deviation strictly below
\* 0.1 (a deviation of exactly 0.1 fails); 3 on 0.0015 <= velocity <=
\* 0.0045, 4 on 3 <= ratio <= 5, 5 on 3 <= depth <= 5 (3.0 and 5.0 pass,
\* 2.99 and 5.01 fail), 6 on 125 <= weir loading <= 500, limits included;
\* 7 on a Reynolds number strictly below 2000.
C4_SevenChecksInOrder ==
    Evaluated =>
        /\ [i \in 1..Len(out.checks) |-> out.checks[i].Criterion]
               = << "Detention Time Match", "Overflow Rate Match",
                    "Horizontal Velocity", "Length:Width Ratio", "Basin Depth",
                    "Weir Loading", "Flow Regime" >>
        /\ Passes(1) = RLt(Deviation(out.detention_time_actual, widgets.detention_time),
                           Dec(1, 10))
        /\ Passes(2) = RLt(Deviation(out.overflow_rate_actual, widgets.overflow_rate),
                           Dec(1, 10))
        /\ Passes(3) = (/\ RLe(Dec(15, 10000), out.horizontal_velocity)
                        /\ RLe(out.horizontal_velocity, Dec(45, 10000)))
        /\ Passes(4) = (RLe(R(3), widgets.l_w_ratio) /\ RLe(widgets.l_w_ratio, R(5)))
        /\ Passes(5) = (RLe(R(3), widgets.depth) /\ RLe(widgets.depth, R(5)))
        /\ Passes(6) = (/\ RLe(R(125), out.weir_loading_m3_d_m)
                        /\ RLe(out.weir_loading_m3_d_m, R(500)))
        /\ Passes(7) = RLt(out.reynolds_number, R(2000))
        /\ Deviation(out.detention_time_actual, widgets.detention_time) = Dec(1, 10)
               => ~Passes(1)
        /\ Deviation(out.overflow_rate_actual, widgets.overflow_rate) = Dec(1, 10)
               => ~Passes(2)
        /\ widgets.depth \in {R(3), R(5)} => Passes(5)
        /\ widgets.depth \in {Dec(299, 100), Dec(501, 100)} => ~Passes(5)
        /\ widgets.l_w_ratio \in {R(3), R(5)} => Passes(4)
        /\ out.horizontal_velocity \in {Dec(15, 10000), Dec(45, 10000)} => Passes(3)
        /\ out.weir_loading_m3_d_m \in {R(125), R(500)} => Passes(6)
        /\ out.reynolds_number = R(2000) => ~Passes(7)

\* A run with the depth on its lower limit, where check 5 passes, and the
\* overflow rate exactly 10% off its target, where check 2 fails.
C4_OnTheLimits ==
    /\ out # Namespace(widgets) /\ out.fail_line = 0
    /\ widgets.depth = R(3)
    /\ Passes(5)
    /\ Deviation(out.overflow_rate_actual, widgets.overflow_rate) = Dec(1, 10)
    /\ ~Passes(2)

\* The results of lines 123-214, flow per basin to Reynolds number.
DerivedFields ==
    {"flow_per_basin", "volume_required", "surface_area_required",
     "surface_area_for_volume", "surface_area_actual", "width", "length",
     "volume_actual", "detention_time_actual", "overflow_rate_actual",
     "horizontal_velocity", "weir_length", "weir_loading", "weir_loading_m3_d_m",
     "reynolds_number"}

\* C6: whatever the user does with the widgets, every input stays in its
\* widget's range, no run ends on a division by zero, and every divisor of
\* the calculation (basins, overflow rate, depth, ratio, flow per basin,
\* surface area, width * depth, weir length, detention time) and the
\* argument of the square root are strictly positive.
C6_WidgetsKeepDivisorsPositive ==
    /\ out.fail_line \notin DivisionLines
    /\ detention_time_accepts(widgets.detention_time)
    /\ overflow_rate_accepts(widgets.overflow_rate)
    /\ flow_input_accepts(widgets.flow_input)
    /\ widgets.flow_units \in FlowUnits
    /\ num_basins_accepts(widgets.num_basins)
    /\ depth_accepts(widgets.depth)
    /\ l_w_ratio_accepts(widgets.l_w_ratio)
    /\ out.num_basins > 0
    /\ RLt(R(0), out.overflow_rate)
    /\ RLt(R(0), out.depth)
    /\ RLt(R(0), out.l_w_ratio)
    /\ RLt(R(0), out.detention_time)
    /\ RLt(R(0), out.flow_per_basin)
    /\ RLt(R(0), out.surface_area_actual)
    /\ RLt(R(0), RDiv(out.surface_area_actual, out.l_w_ratio))
    /\ out.width = RSqrt(RDiv(out.surface_area_actual, out.l_w_ratio))
    /\ RLt(R(0), RMul(out.width, out.depth))
    /\ RLt(R(0), out.weir_length)

\* The smallest flow the widget lets through, split over several basins.
C6_SmallestFlow ==
    /\ widgets.flow_input = R(1) /\ widgets.flow_units = "m3/day"
    /\ widgets.num_basins > 1
    /\ Completed
    /\ out.flow_per_basin = RDiv(R(1), R(widgets.num_basins))

\* C7 as stated: the flow in m3/day is the entered flow times one factor,
\* 1 per day, 24 per hour, 3785.41 per million gallons a day, 86400 for the
\* per-second unit.
C7_OneFactorPerUnit ==
    Produced(out.flow_m3_day) =>
        out.flow_m3_day
            = RMul(widgets.flow_input,
                   CASE widgets.flow_units = "m3/day" -> R(1)
                     [] widgets.flow_units = "m3/hour" -> R(24)
                     [] widgets.flow_units = "MGD (Million Gallons/Day)" -> Dec(378541, 100)
                     [] widgets.flow_units = "L/s" -> R(86400))

\* C7: the flow in m3/day is the entered flow times 1 (m3/day), times 24
\* (m3/hour), times 3785.41 (MGD, so that 1 MGD is 3785.41 m3/day), and
\* for L/s times 0.001 and then times 86400, each product rounded, which
\* is 86.4 times the entered flow up to that rounding (and an infinity
\* where that is one); nothing else enters.
C7_FlowNormalization ==
    Produced(out.flow_m3_day) =>
        /\ widgets.flow_units = "m3/day" => out.flow_m3_day = widgets.flow_input
        /\ widgets.flow_units = "m3/hour"
               => out.flow_m3_day = RMul(widgets.flow_input, R(24))
        /\ widgets.flow_units = "MGD (Million Gallons/Day)"
               => out.flow_m3_day = RMul(widgets.flow_input, Dec(378541, 100))
        /\ widgets.flow_units = "L/s"
               => /\ out.flow_m3_day
                         = RMul(RMul(widgets.flow_input, Dec(1, 1000)), R(86400))
                  /\ \/ Near(out.flow_m3_day, RMul(widgets.flow_input, Dec(864, 10)))
                     \/ out.flow_m3_day = RMul(widgets.flow_input, Dec(864, 10))

\* 1 MGD entered: 3785.41 m3/day.
C7_OneMGD ==
    /\ Completed
    /\ widgets.flow_units = "MGD (Million Gallons/Day)"
    /\ widgets.flow_input = R(1)
    /\ out.flow_m3_day = Dec(378541, 100)

\* C8: when only the number of basins changes, and grows, the flow per
\* basin, the surface area, the length and the width all get strictly
\* smaller.
C8_MoreBasinsSmallerBasin ==
    [][(/\ widgets' = [widgets EXCEPT !.num_basins = widgets'.num_basins]
        /\ widgets'.num_basins > widgets.num_basins)
          => /\ RLt(out'.flow_per_basin, out.flow_per_basin)
             /\ RLt(out'.surface_area_actual, out.surface_area_actual)
             /\ RLt(out'.length, out.length)
             /\ RLt(out'.width, out.width)]_vars

\* The figures of lines 569-590.
CostFields ==
    {"concrete_volume", "concrete_cost", "excavation_cost", "equipment_cost", "total_cost"}

\* The number a formatted quantity reads as: its digits, the last
\* `places` of them behind the point.
RECURSIVE DigitsValue(_)
DigitsValue(d) ==
    IF d = << >> THEN 0 ELSE 10 * DigitsValue(SubSeq(d, 1, Len(d) - 1)) + d[Len(d)]

Shown(t) == Dec(DigitsValue(t.digits), 10 ^ t.places)

\* C9 as stated: when only the target removal changes, every derived
\* result, the seven checks, the overall flag and the cost estimate stay
\* as they were; of the summary only the Target Removal row changes, and
\* it shows the value entered verbatim: what the row reads is the value.
C9_TargetRemovalVerbatim ==
    [][(/\ widgets' = [widgets EXCEPT !.target_removal = widgets'.target_removal]
        /\ widgets'.target_removal # widgets.target_removal)
          => /\ \A f \in {"flow_m3_day"} \cup DerivedFields \cup CostFields :
                    out'[f] = out[f]
             /\ out'.checks = out.checks
             /\ out'.all_pass = out.all_pass
             /\ Produced(out'.summary_data)
                    => /\ \A i \in 1..Len(out'.summary_data) :
                              \/ out'.summary_data[i] = out.summary_data[i]
                              \/ i = 4
                       /\ out'.summary_data[4].Parameter = "Target Removal"
                       /\ Shown(out'.summary_data[4].Value) = widgets'.target_removal]_vars

\* C9, amended: when only the target removal changes, every derived
\* result, the seven checks, the overall flag and the cost estimate stay as
\* they were; of the summary only the Target Removal row changes, and it
\* shows the value entered rounded to one decimal, with a % behind.
C9_TargetRemovalOnlyInSummary ==
    [][(/\ widgets' = [widgets EXCEPT !.target_removal = widgets'.target_removal]
        /\ widgets'.target_removal # widgets.target_removal)
          => /\ \A f \in {"flow_m3_day"} \cup DerivedFields \cup CostFields :
                    out'[f] = out[f]
             /\ out'.checks = out.checks
             /\ out'.all_pass = out.all_pass
             /\ out'.fail_line = out.fail_line
             /\ Produced(out'.summary_data) = Produced(out.summary_data)
             /\ Produced(out.summary_data)
                    => /\ \A i \in 1..Len(out.summary_data) :
                              \/ out'.summary_data[i] = out.summary_data[i]
                              \/ i = 4
                       /\ out'.summary_data[4]
                              = Row("Target Removal",
                                    Text(widgets'.target_removal, 1, FALSE, "%"))
                       /\ out.summary_data[4]
                              = Row("Target Removal",
                                    Text(widgets.target_removal, 1, FALSE, "%"))]_vars

\* A target removal of 80.26 entered: the row shows 80.3%, and the surface
\* area is the one of the default 75.
C9_TargetEntered ==
    /\ Completed
    /\ widgets.target_removal = Dec(8026, 100)
    /\ out.summary_data[4].Value
           = [nan |-> FALSE, inf |-> FALSE, neg |-> FALSE, digits |-> <<8, 0, 3>>, places |-> 1,
              grouped |-> FALSE, unit |-> "%"]
    /\ out.surface_area_actual
           = Script([widgets EXCEPT !.target_removal = Defaults.target_removal]).surface_area_actual

\* C11: Scenario A.  With 10000 m3/day, 2 basins, 2.0 h, 1200 m/d, depth
\* 3.5 and ratio 4.0 the volume governs: flow per basin 5000; area for the
\* overflow rate 5000 / 1200, written 4.1667 to four decimals, below area
\* for the volume, written 119.05 to two, which is the area used; the
\* actual volume is the required one, written 416.67; the actual detention
\* time is 2.0 and check 1 passes; the actual overflow rate is 42.0 to the
\* last place of a double, written 42.0, and check 2 fails.
C11_ScenarioA ==
    (/\ Completed
     /\ out.flow_m3_day = R(10000) /\ widgets.num_basins = 2
     /\ widgets.detention_time = R(2) /\ widgets.overflow_rate = R(1200)
     /\ widgets.depth = Dec(35, 10) /\ widgets.l_w_ratio = R(4)) =>
        /\ out.flow_per_basin = R(5000)
        /\ out.surface_area_required = RDiv(R(5000), R(1200))
        /\ FixedPoint(out.surface_area_required, 4) = <<4, 1, 6, 6, 7>>
        /\ FixedPoint(out.surface_area_for_volume, 2) = <<1, 1, 9, 0, 5>>
        /\ RLt(out.surface_area_required, out.surface_area_for_volume)
        /\ out.surface_area_actual = out.surface_area_for_volume
        /\ out.volume_actual = out.volume_required
        /\ FixedPoint(out.volume_required, 2) = <<4, 1, 6, 6, 7>>
        /\ out.detention_time_actual = R(2)
        /\ out.checks[1].Criterion = "Detention Time Match" /\ Passes(1)
        /\ Near(out.overflow_rate_actual, R(42))
        /\ FixedPoint(out.overflow_rate_actual, 1) = <<4, 2, 0>>
        /\ out.checks[2].Criterion = "Overflow Rate Match" /\ ~Passes(2)

\* Scenario A's inputs on the widgets, with another target removal
\* entered, and its run shown.
C11_ScenarioAShown ==
    /\ Completed
    /\ widgets.flow_units = "m3/day" /\ widgets.flow_input = R(10000)
    /\ widgets.num_basins = 2 /\ widgets.detention_time = R(2)
    /\ widgets.overflow_rate = R(1200) /\ widgets.depth = Dec(35, 10)
    /\ widgets.l_w_ratio = R(4)
    /\ widgets.target_removal # Defaults.target_removal
    /\ out.detention_time_actual = R(2)
    /\ out.summary_data[8].Value
           = [nan |-> FALSE, inf |-> FALSE, neg |-> FALSE, digits |-> <<4, 2, 0>>, places |-> 1,
              grouped |-> FALSE, unit |-> "m/d"]

\* An input the widgets let through.
ValidInput(w) ==
    /\ detention_time_accepts(w.detention_time)
    /\ overflow_rate_accepts(w.overflow_rate)
    /\ flow_input_accepts(w.flow_input)
    /\ num_basins_accepts(w.num_basins)
    /\ depth_accepts(w.depth)
    /\ l_w_ratio_accepts(w.l_w_ratio)

\* C12: on every input the widgets let through, the actual detention time
\* is at least the target and the actual overflow rate at most the target,
\* one of the two being its target (the detention time when the area for
\* the volume is the one used, the overflow rate when the area for the
\* overflow rate is), all up to the rounding of the double operations; so
\* check 1 or check 2 passes, and both pass only when the two required
\* areas differ by less than 10% (of the area for the volume).
C12_OneOfTheTwoMatches ==
    (out # Namespace(widgets) /\ ValidInput(widgets)) =>
        /\ Evaluated
        /\ \/ RLe(widgets.detention_time, out.detention_time_actual)
           \/ Near(out.detention_time_actual, widgets.detention_time)
        /\ \/ RLe(out.overflow_rate_actual, widgets.overflow_rate)
           \/ Near(out.overflow_rate_actual, widgets.overflow_rate)
        /\ out.surface_area_actual = out.surface_area_for_volume
               => Near(out.detention_time_actual, widgets.detention_time)
        /\ out.surface_area_actual = out.surface_area_required
               => Near(out.overflow_rate_actual, widgets.overflow_rate)
        /\ Passes(1) \/ Passes(2)
        /\ (Passes(1) /\ Passes(2))
               => RLt(RAbs(RSub(out.surface_area_required, out.surface_area_for_volume)),
                      RMul(RAdd(Dec(1, 10), Dec(1, 1000000000)),
                           out.surface_area_for_volume))

=============================================================================
